---- MODULE Spec2Model ----
(***************************************************************************)
(* Multiset compression with bits-back coding: the count-augmented binary  *)
(* search tree (multiset_codec/msbst.py), the rANS engine                   *)
(* (multiset_codec/rans.py, described in spec.md section 4.A) and the       *)
(* codec combinators (multiset_codec/codecs.py).                            *)
(***************************************************************************)
EXTENDS Integers, Sequences, FiniteSets, TLC

\* ------------------------------------------------------------------------
\* Bounds of the model
\* ------------------------------------------------------------------------
NumSymbols == 3
MaxSize == 4
MaxSeqLen == 3
NumLanes == 2
MaxPrecision == 3
MaxOps == 2
MaxTail == 2

Symbols == 1..NumSymbols

\* ------------------------------------------------------------------------
\* msbst.py: the multiset as a nested tuple tree.  The empty tree is the
\* empty tuple (); a node is (size, y, left, right).
\* ------------------------------------------------------------------------
Empty == <<>>

\* outcomes that are exceptions in the Python code
ValueError == <<-1>>
AssertionError == <<-2>>

IsError(r) == r = ValueError \/ r = AssertionError

\* `t[0] if t else 0`
SizeOf(t) == IF t = Empty THEN 0 ELSE t[1]

\* insert that forgets the count of a symbol already at the pivot
RECURSIVE insert_nocount(_, _)
insert_nocount(multiset, x) ==
    LET t == IF multiset = Empty THEN <<0, x, Empty, Empty>> ELSE multiset
        size == t[1]
        y == t[2]
        left == IF x < y THEN insert_nocount(t[3], x) ELSE t[3]
        right == IF x < y THEN t[4] ELSE IF x > y THEN insert_nocount(t[4], x) ELSE t[4]
    IN IF multiset # Empty /\ x = y THEN t ELSE <<size + 1, y, left, right>>

\* insert that also descends left for a symbol equal to the pivot
RECURSIVE insert_dup(_, _)
insert_dup(multiset, x) ==
    LET t == IF multiset = Empty THEN <<0, x, Empty, Empty>> ELSE multiset
        size == t[1]
        y == t[2]
        left == IF multiset # Empty /\ x <= y THEN insert_dup(t[3], x) ELSE t[3]
        right == IF x > y THEN insert_dup(t[4], x) ELSE t[4]
    IN <<size + 1, y, left, right>>

RECURSIVE insert(_, _)
insert(multiset, x) ==
    LET t == IF multiset = Empty THEN <<0, x, Empty, Empty>> ELSE multiset
        size == t[1]
        y == t[2]
        left == IF x < y THEN insert(t[3], x) ELSE t[3]
        right == IF x < y THEN t[4] ELSE IF x > y THEN insert(t[4], x) ELSE t[4]
    IN <<size + 1, y, left, right>>

\* remove that keeps a node whose size has reached 0
RECURSIVE remove_keepleaf(_, _)
remove_keepleaf(multiset, x) ==
    IF multiset = Empty THEN ValueError
    ELSE LET size == multiset[1]
             y == multiset[2]
             left == IF x < y THEN remove_keepleaf(multiset[3], x) ELSE multiset[3]
             right == IF x < y THEN multiset[4]
                      ELSE IF x > y THEN remove_keepleaf(multiset[4], x) ELSE multiset[4]
         IN IF IsError(left) \/ IsError(right) THEN ValueError
            ELSE <<size - 1, y, left, right>>

RECURSIVE remove(_, _)
remove(multiset, x) ==
    IF multiset = Empty THEN ValueError
    ELSE LET size == multiset[1]
             y == multiset[2]
             left == IF x < y THEN remove(multiset[3], x) ELSE multiset[3]
             right == IF x < y THEN multiset[4]
                      ELSE IF x > y THEN remove(multiset[4], x) ELSE multiset[4]
         IN IF size = 1 THEN Empty
            ELSE IF IsError(left) \/ IsError(right) THEN ValueError
            ELSE <<size - 1, y, left, right>>

\* forward_lookup whose right branch skips the pivot's own copies
RECURSIVE forward_lookup_skip(_, _)
forward_lookup_skip(multiset, x) ==
    IF multiset = Empty THEN ValueError
    ELSE LET size == multiset[1]
             y == multiset[2]
             left == multiset[3]
             right == multiset[4]
         IN IF x > y
            THEN LET r == forward_lookup_skip(right, x)
                 IN IF IsError(r) THEN r
                    ELSE <<SizeOf(left) + r[1], r[2]>>
            ELSE IF x < y
            THEN forward_lookup_skip(left, x)
            ELSE LET start == SizeOf(left)
                 IN <<start, size - start - SizeOf(right)>>

RECURSIVE forward_lookup(_, _)
forward_lookup(multiset, x) ==
    IF multiset = Empty THEN ValueError
    ELSE LET size == multiset[1]
             y == multiset[2]
             left == multiset[3]
             right == multiset[4]
         IN IF x > y
            THEN LET r == forward_lookup(right, x)
                 IN IF IsError(r) THEN r
                    ELSE <<size - right[1] + r[1], r[2]>>
            ELSE IF x < y
            THEN forward_lookup(left, x)
            ELSE LET start == SizeOf(left)
                 IN <<start, size - start - SizeOf(right)>>

\* reverse_lookup that does not shift the start found in the right subtree
RECURSIVE reverse_lookup_noshift(_, _)
reverse_lookup_noshift(multiset, idx) ==
    LET t == IF multiset = Empty THEN <<0, Empty, Empty, Empty>> ELSE multiset
        size == t[1]
        y == t[2]
        left == t[3]
        right == t[4]
        y_start == SizeOf(left)
        y_freq == size - y_start - SizeOf(right)
    IN IF ~(0 <= idx /\ idx < size) THEN AssertionError
       ELSE IF idx < y_start
       THEN reverse_lookup_noshift(left, idx)
       ELSE IF idx >= y_start + y_freq
       THEN reverse_lookup_noshift(right, idx - (size - right[1]))
       ELSE <<(<<y_start, y_freq>>), y>>

RECURSIVE reverse_lookup(_, _)
reverse_lookup(multiset, idx) ==
    LET t == IF multiset = Empty THEN <<0, Empty, Empty, Empty>> ELSE multiset
        size == t[1]
        y == t[2]
        left == t[3]
        right == t[4]
        y_start == SizeOf(left)
        y_freq == size - y_start - SizeOf(right)
    IN IF ~(0 <= idx /\ idx < size) THEN AssertionError
       ELSE IF idx < y_start
       THEN reverse_lookup(left, idx)
       ELSE IF idx >= y_start + y_freq
       THEN LET size_not_right == size - right[1]
                r == reverse_lookup(right, idx - size_not_right)
            IN IF IsError(r) THEN r
               ELSE <<(<<r[1][1] + size_not_right, r[1][2]>>), r[2]>>
       ELSE <<(<<y_start, y_freq>>), y>>

\* insert_then_forward_lookup that reads the size before the increment
RECURSIVE insert_then_forward_lookup_stale(_, _)
insert_then_forward_lookup_stale(multiset, x) ==
    LET t == IF multiset = Empty THEN <<0, x, Empty, Empty>> ELSE multiset
        size == t[1]
        y == t[2]
        left == t[3]
        right == t[4]
    IN IF x > y
       THEN LET r == insert_then_forward_lookup_stale(right, x)
            IN <<(<<size + 1, y, left, r[1]>>),
                 (<<size - r[1][1] + r[2][1], r[2][2]>>)>>
       ELSE IF x < y
       THEN LET r == insert_then_forward_lookup_stale(left, x)
            IN <<(<<size + 1, y, r[1], right>>), r[2]>>
       ELSE LET start == SizeOf(left)
            IN <<(<<size + 1, y, left, right>>),
                 (<<start, size - start - SizeOf(right)>>)>>

RECURSIVE insert_then_forward_lookup(_, _)
insert_then_forward_lookup(multiset, x) ==
    LET t == IF multiset = Empty THEN <<0, x, Empty, Empty>> ELSE multiset
        size == t[1] + 1
        y == t[2]
        left == t[3]
        right == t[4]
    IN IF x > y
       THEN LET r == insert_then_forward_lookup(right, x)
            IN <<(<<size, y, left, r[1]>>),
                 (<<size - r[1][1] + r[2][1], r[2][2]>>)>>
       ELSE IF x < y
       THEN LET r == insert_then_forward_lookup(left, x)
            IN <<(<<size, y, r[1], right>>), r[2]>>
       ELSE LET start == SizeOf(left)
            IN <<(<<size, y, left, right>>),
                 (<<start, size - start - SizeOf(right)>>)>>

\* reverse_lookup_then_remove that keeps a node whose size reached 0
RECURSIVE reverse_lookup_then_remove_keep(_, _)
reverse_lookup_then_remove_keep(multiset, idx) ==
    IF multiset = Empty THEN ValueError
    ELSE LET size == multiset[1]
             y == multiset[2]
             left == multiset[3]
             right == multiset[4]
             y_start == SizeOf(left)
             y_freq == size - y_start - SizeOf(right)
         IN IF idx < y_start
            THEN LET r == reverse_lookup_then_remove_keep(left, idx)
                 IN IF IsError(r) THEN r
                    ELSE <<(<<size - 1, y, r[1], right>>), r[2], r[3]>>
            ELSE IF idx >= y_start + y_freq
            THEN IF right = Empty THEN ValueError
                 ELSE LET size_not_right == size - right[1]
                          r == reverse_lookup_then_remove_keep(right, idx - size_not_right)
                      IN IF IsError(r) THEN r
                         ELSE <<(<<size - 1, y, left, r[1]>>),
                                (<<r[2][1] + size_not_right, r[2][2]>>), r[3]>>
            ELSE <<(<<size - 1, y, left, right>>), (<<y_start, y_freq>>), y>>

\* fused removal that does not shift the start found in the right subtree
RECURSIVE reverse_lookup_then_remove_noshift(_, _)
reverse_lookup_then_remove_noshift(multiset, idx) ==
    IF multiset = Empty THEN ValueError
    ELSE LET size == multiset[1]
             y == multiset[2]
             left == multiset[3]
             right == multiset[4]
             y_start == SizeOf(left)
             y_freq == size - y_start - SizeOf(right)
             node(l, r) == IF size - 1 # 0 THEN <<size - 1, y, l, r>> ELSE Empty
         IN IF idx < y_start
            THEN LET r == reverse_lookup_then_remove_noshift(left, idx)
                 IN IF IsError(r) THEN r
                    ELSE <<node(r[1], right), r[2], r[3]>>
            ELSE IF idx >= y_start + y_freq
            THEN IF right = Empty THEN ValueError
                 ELSE LET size_not_right == size - right[1]
                          r == reverse_lookup_then_remove_noshift(right, idx - size_not_right)
                      IN IF IsError(r) THEN r
                         ELSE <<node(left, r[1]), r[2], r[3]>>
            ELSE <<node(left, right), (<<y_start, y_freq>>), y>>

\* returns <<multiset', <<start, freq>>, x>>
RECURSIVE reverse_lookup_then_remove(_, _)
reverse_lookup_then_remove(multiset, idx) ==
    IF multiset = Empty THEN ValueError
    ELSE LET size == multiset[1]
             y == multiset[2]
             left == multiset[3]
             right == multiset[4]
             y_start == SizeOf(left)
             y_freq == size - y_start - SizeOf(right)
             node(l, r) == IF size - 1 # 0 THEN <<size - 1, y, l, r>> ELSE Empty
         IN IF idx < y_start
            THEN LET r == reverse_lookup_then_remove(left, idx)
                 IN IF IsError(r) THEN r
                    ELSE <<node(r[1], right), r[2], r[3]>>
            ELSE IF idx >= y_start + y_freq
            THEN IF right = Empty THEN ValueError
                 ELSE LET size_not_right == size - right[1]
                          r == reverse_lookup_then_remove(right, idx - size_not_right)
                      IN IF IsError(r) THEN r
                         ELSE <<node(left, r[1]),
                                (<<r[2][1] + size_not_right, r[2][2]>>), r[3]>>
            ELSE <<node(left, right), (<<y_start, y_freq>>), y>>

\* reduce(insert, sequence, ())
RECURSIVE build_multiset(_)
build_multiset(sequence) ==
    IF sequence = <<>> THEN Empty
    ELSE insert(build_multiset(SubSeq(sequence, 1, Len(sequence) - 1)),
                sequence[Len(sequence)])

\* freq * [y]
Repeat(y, freq) == [i \in 1..freq |-> y]

\* to_sequence that lists the pivot of every node once
RECURSIVE to_sequence_pivots(_)
to_sequence_pivots(multiset) ==
    IF multiset = Empty THEN <<>>
    ELSE to_sequence_pivots(multiset[3]) \o <<multiset[2]>>
             \o to_sequence_pivots(multiset[4])

RECURSIVE to_sequence(_)
to_sequence(multiset) ==
    IF multiset = Empty THEN <<>>
    ELSE LET size == multiset[1]
             y == multiset[2]
             left == multiset[3]
             right == multiset[4]
             freq == size - SizeOf(left) - SizeOf(right)
         IN to_sequence(left) \o Repeat(y, freq) \o to_sequence(right)


\* ------------------------------------------------------------------------
\* Reference multiset: symbol -> count, kept beside the tree by the same
\* additions and removals; sorted() by counting and by insertion.
\* ------------------------------------------------------------------------
EmptyRef == [s \in Symbols |-> 0]

RefAdd(r, x) == [r EXCEPT ![x] = @ + 1]

RefDel(r, x) == [r EXCEPT ![x] = @ - 1]

RECURSIVE RefOfSeq(_)
RefOfSeq(sequence) ==
    IF sequence = <<>> THEN EmptyRef
    ELSE RefAdd(RefOfSeq(Tail(sequence)), Head(sequence))

RECURSIVE SortedUpTo(_, _)
SortedUpTo(r, n) ==
    IF n = 0 THEN <<>> ELSE SortedUpTo(r, n - 1) \o Repeat(n, r[n])

\* the sorted list of the reference multiset
SortedRef(r) == SortedUpTo(r, NumSymbols)

RECURSIVE CountLess(_, _)
CountLess(r, x) == IF x <= 1 THEN 0 ELSE r[x - 1] + CountLess(r, x - 1)

RefSize(r) == CountLess(r, NumSymbols + 1)

\* Python's sorted(): insertion of each element before the first larger one
RECURSIVE InsertSorted(_, _)
InsertSorted(sorted, x) ==
    IF sorted = <<>> THEN <<x>>
    ELSE IF x < Head(sorted) THEN <<x>> \o sorted
    ELSE <<Head(sorted)>> \o InsertSorted(Tail(sorted), x)

RECURSIVE Sorted(_)
Sorted(sequence) ==
    IF sequence = <<>> THEN <<>>
    ELSE InsertSorted(Sorted(Tail(sequence)), Head(sequence))

RECURSIVE SeqsUpTo(_)
SeqsUpTo(n) ==
    IF n = 0 THEN {<<>>}
    ELSE LET shorter == SeqsUpTo(n - 1)
         IN shorter \cup {Append(s, x) : s \in {t \in shorter : Len(t) = n - 1}, x \in Symbols}

\* the pivots stored in a tree
RECURSIVE Pivots(_)
Pivots(t) == IF t = Empty THEN {} ELSE {t[2]} \cup Pivots(t[3]) \cup Pivots(t[4])

\* the number of nodes of a tree
RECURSIVE Nodes(_)
Nodes(t) == IF t = Empty THEN 0 ELSE 1 + Nodes(t[3]) + Nodes(t[4])

RECURSIVE BSTOrdered(_)
BSTOrdered(t) ==
    \/ t = Empty
    \/ /\ \A p \in Pivots(t[3]) : p < t[2]
       /\ \A p \in Pivots(t[4]) : p > t[2]
       /\ BSTOrdered(t[3])
       /\ BSTOrdered(t[4])

\* the number of copies of the pivot held at the root of a non-empty tree
Multiplicity(t) == t[1] - SizeOf(t[3]) - SizeOf(t[4])

\* the least pivot multiplicity over the nodes of a tree (MaxSize + 1 for ())
RECURSIVE MinMultiplicity(_)
MinMultiplicity(t) ==
    IF t = Empty THEN MaxSize + 1
    ELSE LET m == Multiplicity(t)
             l == MinMultiplicity(t[3])
             r == MinMultiplicity(t[4])
             lr == IF l < r THEN l ELSE r
         IN IF m < lr THEN m ELSE lr

\* the least size field over the nodes of a tree (MaxSize + 1 for ())
RECURSIVE MinNodeSize(_)
MinNodeSize(t) ==
    IF t = Empty THEN MaxSize + 1
    ELSE LET l == MinNodeSize(t[3])
             r == MinNodeSize(t[4])
             lr == IF l < r THEN l ELSE r
         IN IF t[1] < lr THEN t[1] ELSE lr

\* ------------------------------------------------------------------------
\* rans: the range-ANS engine over a vector of 64-bit unsigned lanes and a
\* stack of 32-bit words (spec.md 3.1 and 4.A).  The precision handed to
\* encode and decode is the total of the CDF, an arbitrary positive integer
\* (codecs.py: Uniform(prec) codes "the interval [0, prec)",
\* SamplingWithoutReplacement passes the multiset size), so the shifts and
\* the mask by `precision` of 4.A are the product, quotient and remainder
\* by that total.
\*
\* A lane is <<a, b, c, d>> = a*2^48 + b*2^32 + c*2^16 + d, a tail word
\* is <<c, d>> = c*2^16 + d: limbs of 16 bits keep every intermediate
\* value of the arithmetic below 2^31.
\* ------------------------------------------------------------------------
LimbBase == 65536

\* the lane holding a small number 0 <= n < 2^31
U64(n) == <<0, 0, n \div LimbBase, n % LimbBase>>

\* (h * m) mod 2^64, for 0 <= m < 2^15
MulSmall(h, m) ==
    LET p4 == h[4] * m
        p3 == h[3] * m + p4 \div LimbBase
        p2 == h[2] * m + p3 \div LimbBase
        p1 == h[1] * m + p2 \div LimbBase
    IN <<p1 % LimbBase, p2 % LimbBase, p3 % LimbBase, p4 % LimbBase>>

\* (h + a) mod 2^64, for -2^30 < a < 2^30
AddSmall(h, a) ==
    LET s4 == h[4] + a
        s3 == h[3] + s4 \div LimbBase
        s2 == h[2] + s3 \div LimbBase
        s1 == h[1] + s2 \div LimbBase
    IN <<s1 % LimbBase, s2 % LimbBase, s3 % LimbBase, s4 % LimbBase>>

\* <<h div d, h mod d>>, for 1 <= d < 2^15
DivMod(h, d) ==
    LET t1 == h[1]
        t2 == (t1 % d) * LimbBase + h[2]
        t3 == (t2 % d) * LimbBase + h[3]
        t4 == (t3 % d) * LimbBase + h[4]
    IN <<(<<t1 \div d, t2 \div d, t3 \div d, t4 \div d>>), t4 % d>>

\* h >= k, for 0 <= k < 2^31
GeSmall(h, k) ==
    \/ h[1] > 0
    \/ h[2] > 0
    \/ h[3] >= LimbBase \div 2
    \/ h[3] * LimbBase + h[4] >= k

\* h >> 32, h & (RANS_BASE - 1), (h << 32) | word
Shr32(h) == <<0, 0, h[1], h[2]>>

Low32(h) == <<h[3], h[4]>>

Shl32Or(h, word) == <<h[3], h[4], word[1], word[2]>>

\* RANS_BASE = 2^32 (radix), RANS_L = 2^32 (renormalisation lower bound),
\* RANS_H = 2^64, given by their exponents
RansBaseBits == 32

RansLBits == 32

RansHBits == 64

\* 2^bits as a lane, for 0 <= bits < 64
Pow2Lane(bits) == [i \in 1..4 |-> IF i = 4 - (bits \div 16) THEN 2 ^ (bits % 16) ELSE 0]

RANS_L == Pow2Lane(RansLBits)

\* RANS_L / RANS_BASE
RansLOverBase == 2 ^ (RansLBits - RansBaseBits)

\* a < b on lanes
LaneLess(a, b) ==
    \E i \in 1..4 : a[i] < b[i] /\ \A j \in 1..(i - 1) : a[j] = b[j]

\* h < RANS_L
BelowRansL(h) == LaneLess(h, RANS_L)

\* RANS_L <= h < RANS_H: the value of a lane at rest
AtRest(h) ==
    /\ ~BelowRansL(h)
    /\ Len(h) * 16 = RansHBits
    /\ \A i \in 1..4 : 0 <= h[i] /\ h[i] < LimbBase

\* pop of a word requested from an empty tail
StateUnderflow == <<-3>>

\* base_message(shape): every lane RANS_L, empty tail
base_message(shape) == <<[i \in 1..shape |-> RANS_L], <<>>>>

\* encode, step 1, of one lane: while h >= max_h push the 32 low bits
\* returns <<h, tail>>; the top of the tail is its last element
RECURSIVE EncodeRenorm(_, _, _)
EncodeRenorm(h, tl, max_h) ==
    IF GeSmall(h, max_h)
    THEN EncodeRenorm(Shr32(h), Append(tl, Low32(h)), max_h)
    ELSE <<h, tl>>

\* encode of one lane: returns <<h, tail>>
EncodeLane(h, tl, start, freq, precision) ==
    LET max_h == (RansLOverBase * precision) * freq
        r == EncodeRenorm(h, tl, max_h)
        qr == DivMod(r[1], freq)
    IN <<AddSmall(MulSmall(qr[1], precision), qr[2] + start), r[2]>>

\* rans.encode(state, starts, freqs, precision), lanes in ascending order
RECURSIVE EncodeLanes(_, _, _, _, _, _)
EncodeLanes(hd, tl, starts, freqs, precision, i) ==
    IF i > Len(hd) THEN <<hd, tl>>
    ELSE LET r == EncodeLane(hd[i], tl, starts[i], freqs[i], precision)
         IN EncodeLanes([hd EXCEPT ![i] = r[1]], r[2], starts, freqs, precision, i + 1)

\* encode of a slice that reaches beyond the CDF total
PrecisionOverflow == <<-4>>

rans_encode(state, starts, freqs, precision) ==
    IF \E i \in 1..Len(state[1]) : starts[i] + freqs[i] > precision
    THEN PrecisionOverflow
    ELSE EncodeLanes(state[1], state[2], starts, freqs, precision, 1)

\* rans.decode(state, precision): the per-lane CDF index
rans_decode(state, precision) ==
    [i \in 1..Len(state[1]) |-> DivMod(state[1][i], precision)[2]]

\* pop, step 2, of one lane: while h < RANS_L pull the top of the tail
RECURSIVE DecodeRenorm(_, _)
DecodeRenorm(h, tl) ==
    IF ~BelowRansL(h) THEN <<h, tl>>
    ELSE IF tl = <<>> THEN StateUnderflow
    ELSE DecodeRenorm(Shl32Or(h, tl[Len(tl)]), SubSeq(tl, 1, Len(tl) - 1))

\* pop of one lane: returns <<h, tail>> or StateUnderflow
PopLane(h, tl, start, freq, precision) ==
    LET qc == DivMod(h, precision)
    IN DecodeRenorm(AddSmall(MulSmall(qc[1], freq), qc[2] - start), tl)

\* pop(starts, freqs) of rans.decode(state, precision), lanes in descending
\* order (the mirror of encode)
RECURSIVE PopLanes(_, _, _, _, _, _)
PopLanes(hd, tl, starts, freqs, precision, i) ==
    IF i < 1 THEN <<hd, tl>>
    ELSE LET r == PopLane(hd[i], tl, starts[i], freqs[i], precision)
         IN IF r = StateUnderflow THEN StateUnderflow
            ELSE PopLanes([hd EXCEPT ![i] = r[1]], r[2], starts, freqs, precision, i - 1)

rans_pop(state, starts, freqs, precision) ==
    PopLanes(state[1], state[2], starts, freqs, precision, Len(state[1]))

\* a view or unflatten with a shape the words do not fit
ShapeMismatch == <<-5>>

\* a lane as two 32-bit words, high word first
HighWord(h) == <<h[1], h[2]>>

LowWord(h) == <<h[3], h[4]>>

\* the lanes of a head as pairs of words, high word first
LaneWords(hd) ==
    [i \in 1..(2 * Len(hd)) |->
        IF i % 2 = 1 THEN HighWord(hd[(i + 1) \div 2]) ELSE LowWord(hd[i \div 2])]

\* rans.flatten(state): the tail stack, then each lane as two words
flatten(state) == state[2] \o LaneWords(state[1])

\* unflatten that reads the low word of a lane first
unflatten_lowfirst(flat, shape) ==
    IF Len(flat) < 2 * shape THEN ShapeMismatch
    ELSE LET n == Len(flat) - 2 * shape
         IN <<[k \in 1..shape |-> flat[n + 2 * k] \o flat[n + 2 * k - 1]],
              SubSeq(flat, 1, n)>>

\* rans.unflatten(flat, shape): the last 2 * prod(shape) words are the
\* lanes, the words before them the tail
unflatten(flat, shape) ==
    IF Len(flat) < 2 * shape THEN ShapeMismatch
    ELSE LET n == Len(flat) - 2 * shape
         IN <<[k \in 1..shape |-> flat[n + 2 * k - 1] \o flat[n + 2 * k]],
              SubSeq(flat, 1, n)>>

\* ------------------------------------------------------------------------
\* State
\* ------------------------------------------------------------------------
VARIABLES multiset, ref, last, head, tail, pc, base, pending, count

vars == <<multiset, ref, last, head, tail, pc, base, pending, count>>

ansVars == <<head, tail, pc, base, pending, count>>

bstVars == <<multiset, ref>>

NoOp == [op |-> "none", arg |-> 0, res |-> <<>>]

\* ------------------------------------------------------------------------
\* The tree operations as steps on one multiset (msbst.py)
\* ------------------------------------------------------------------------
InitBST ==
    /\ multiset = Empty
    /\ ref = EmptyRef
    /\ last = NoOp
    /\ head = <<>>
    /\ tail = <<>>
    /\ pc = "bst"
    /\ base = <<>>
    /\ pending = <<>>
    /\ count = 0

Insert(x) ==
    /\ SizeOf(multiset) < MaxSize
    /\ multiset' = insert(multiset, x)
    /\ ref' = RefAdd(ref, x)
    /\ last' = [op |-> "insert", arg |-> x, res |-> <<>>]
    /\ UNCHANGED ansVars

InsertThenForwardLookup(x) ==
    /\ SizeOf(multiset) < MaxSize
    /\ LET r == insert_then_forward_lookup(multiset, x)
       IN /\ multiset' = r[1]
          /\ last' = [op |-> "insert_then_forward_lookup", arg |-> x, res |-> r[2]]
    /\ ref' = RefAdd(ref, x)
    /\ UNCHANGED ansVars

Remove(x) ==
    /\ ref[x] > 0
    /\ multiset' = remove(multiset, x)
    /\ ref' = RefDel(ref, x)
    /\ last' = [op |-> "remove", arg |-> x, res |-> <<>>]
    /\ UNCHANGED ansVars

ReverseLookupThenRemove(idx) ==
    /\ LET r == reverse_lookup_then_remove(multiset, idx)
       IN /\ multiset' = r[1]
          /\ ref' = RefDel(ref, r[3])
          /\ last' = [op |-> "reverse_lookup_then_remove", arg |-> idx,
                      res |-> <<r[2], r[3]>>]
    /\ UNCHANGED ansVars

ForwardLookup(x) ==
    /\ last' = [op |-> "forward_lookup", arg |-> x, res |-> forward_lookup(multiset, x)]
    /\ UNCHANGED <<multiset, ref>>
    /\ UNCHANGED ansVars

ReverseLookup(idx) ==
    /\ last' = [op |-> "reverse_lookup", arg |-> idx, res |-> reverse_lookup(multiset, idx)]
    /\ UNCHANGED <<multiset, ref>>
    /\ UNCHANGED ansVars

\* build_multiset folds insert over the sequence starting from ()
BuildMultiset(sequence) ==
    /\ multiset = Empty
    /\ multiset' = build_multiset(sequence)
    /\ ref' = RefOfSeq(sequence)
    /\ last' = [op |-> "build_multiset", arg |-> Len(sequence), res |-> sequence]
    /\ UNCHANGED ansVars

NextBST ==
    \/ \E x \in Symbols : Insert(x)
    \/ \E x \in Symbols : InsertThenForwardLookup(x)
    \/ \E x \in Symbols : Remove(x)
    \/ \E idx \in 0..(SizeOf(multiset) - 1) : ReverseLookupThenRemove(idx)
    \/ \E x \in Symbols : ForwardLookup(x)
    \/ \E idx \in 0..(SizeOf(multiset) - 1) : ReverseLookup(idx)
    \/ \E sequence \in SeqsUpTo(MaxSeqLen) : BuildMultiset(sequence)

SpecBST == InitBST /\ [][NextBST]_vars

\* ------------------------------------------------------------------------
\* The rANS engine driven as in tests/test_rans.py: encodes from
\* base_message undone in reverse order by decode and pop; and, the
\* direction bits-back uses, decodes from a state at rest undone by encodes.
\* ------------------------------------------------------------------------
Min(a, b) == IF a < b THEN a ELSE b

\* the slices (start, freq) of a CDF of total `precision`
Slices(precision) ==
    {sl \in (0..(precision - 1)) \X (1..precision) : sl[1] + sl[2] <= precision}

\* per-lane starts and freqs: lane 1 takes the slice, lane k a slice of
\* the same CDF with the freq and start moved on by k - 1
LaneSlice(sl, k, precision) ==
    LET freq == ((sl[2] - 1 + (k - 1)) % precision) + 1
    IN <<(sl[1] + (k - 1)) % (precision - freq + 1), freq>>

Starts(sl, n, precision) == [k \in 1..n |-> LaneSlice(sl, k, precision)[1]]

Freqs(sl, n, precision) == [k \in 1..n |-> LaneSlice(sl, k, precision)[2]]

\* per-lane slices of the given freqs that contain the decoded cf
StartsAround(cf, freqs, precision) ==
    [k \in 1..Len(cf) |-> Min(cf[k], precision - freqs[k])]

\* states at rest, as unflatten builds them from 32-bit words
LaneValueSeq ==
    <<RANS_L, AddSmall(RANS_L, 5), <<32768, 0, 0, 1>>, <<65535, 65535, 65535, 65535>>>>

LaneValues == {LaneValueSeq[i] : i \in 1..Len(LaneValueSeq)}

Words == {<<0, 0>>, <<40000, 7>>}

RECURSIVE TailsUpTo(_)
TailsUpTo(n) ==
    IF n = 0 THEN {<<>>}
    ELSE LET shorter == TailsUpTo(n - 1)
         IN shorter \cup {Append(t, w) : t \in {u \in shorter : Len(u) = n - 1}, w \in Words}

\* every lane the same value, or the lanes running through the values
AtRestHeads(n) ==
    {[k \in 1..n |-> v] : v \in LaneValues}
        \cup {[k \in 1..n |-> LaneValueSeq[((k - 1) % Len(LaneValueSeq)) + 1]]}

AtRestStates(n) == {<<hd, t>> : hd \in AtRestHeads(n), t \in TailsUpTo(MaxTail)}

InitRans ==
    /\ multiset = Empty
    /\ ref = EmptyRef
    /\ last = NoOp
    /\ pending = <<>>
    /\ count = 0
    /\ \/ /\ pc = "encoding"
          /\ head = base_message(NumLanes)[1]
          /\ tail = base_message(NumLanes)[2]
       \/ /\ pc = "decoding"
          /\ \E state \in AtRestStates(NumLanes) :
                /\ head = state[1]
                /\ tail = state[2]
    /\ base = <<head, tail>>

\* x = rans.encode(x, start, freq, precision)
RansEncode(precision, starts, freqs) ==
    /\ pc = "encoding"
    /\ Len(pending) < MaxOps
    /\ LET r == rans_encode(<<head, tail>>, starts, freqs, precision)
       IN /\ head' = r[1]
          /\ tail' = r[2]
    /\ pending' = Append(pending, [starts |-> starts, freqs |-> freqs,
                                   precision |-> precision, before |-> <<head, tail>>])
    /\ last' = [op |-> "rans_encode", arg |-> precision, res |-> <<starts, freqs>>]
    /\ UNCHANGED <<multiset, ref, pc, base, count>>

\* cf, pop = rans.decode(x, precision); x = pop(start, freq)
\* for the last encode not yet undone
RansDecodeUndo ==
    /\ pc \in {"encoding", "unwinding"}
    /\ pending # <<>>
    /\ LET e == pending[Len(pending)]
           cf == rans_decode(<<head, tail>>, e.precision)
           r == rans_pop(<<head, tail>>, e.starts, e.freqs, e.precision)
       IN /\ last' = [op |-> "rans_decode_undo", arg |-> e.precision,
                      res |-> <<cf, e.starts, e.freqs>>]
          /\ IF r = StateUnderflow
             THEN /\ pc' = "error"
                  /\ UNCHANGED <<head, tail>>
             ELSE /\ pc' = "unwinding"
                  /\ head' = r[1]
                  /\ tail' = r[2]
    /\ pending' = SubSeq(pending, 1, Len(pending) - 1)
    /\ UNCHANGED <<multiset, ref, base, count>>

\* cf, pop = rans.decode(x, precision); x = pop(start, freq)
\* for a slice that contains cf
RansDecode(precision, freqs) ==
    /\ pc = "decoding"
    /\ Len(pending) < MaxOps
    /\ LET cf == rans_decode(<<head, tail>>, precision)
           starts == StartsAround(cf, freqs, precision)
           r == rans_pop(<<head, tail>>, starts, freqs, precision)
       IN /\ last' = [op |-> "rans_decode", arg |-> precision,
                      res |-> <<cf, starts, freqs>>]
          /\ IF r = StateUnderflow
             THEN /\ pc' = "error"
                  /\ UNCHANGED <<head, tail, pending>>
             ELSE /\ pc' = pc
                  /\ head' = r[1]
                  /\ tail' = r[2]
                  /\ pending' = Append(pending, [starts |-> starts, freqs |-> freqs,
                                                 precision |-> precision,
                                                 before |-> <<head, tail>>])
    /\ UNCHANGED <<multiset, ref, base, count>>

\* x = rans.encode(x, start, freq, precision) for the last decode not yet
\* undone
RansEncodeUndo ==
    /\ pc \in {"decoding", "rewinding"}
    /\ pending # <<>>
    /\ LET e == pending[Len(pending)]
           r == rans_encode(<<head, tail>>, e.starts, e.freqs, e.precision)
       IN /\ head' = r[1]
          /\ tail' = r[2]
          /\ last' = [op |-> "rans_encode_undo", arg |-> e.precision, res |-> e.before]
    /\ pc' = "rewinding"
    /\ pending' = SubSeq(pending, 1, Len(pending) - 1)
    /\ UNCHANGED <<multiset, ref, base, count>>

\* flat = rans.flatten(x)
RansFlatten ==
    /\ pc = "encoding"
    /\ last.op \notin {"flatten", "unflatten"}
    /\ last' = [op |-> "flatten", arg |-> NumLanes, res |-> flatten(<<head, tail>>)]
    /\ UNCHANGED <<multiset, ref, head, tail, pc, base, pending, count>>

\* x_ = rans.unflatten(flat, shape), and the state takes its place
RansUnflatten ==
    /\ pc = "encoding"
    /\ last.op = "flatten"
    /\ LET r == unflatten(last.res, last.arg)
       IN /\ r # ShapeMismatch
          /\ head' = r[1]
          /\ tail' = r[2]
    /\ last' = [op |-> "unflatten", arg |-> last.arg,
                res |-> [flat |-> last.res, state |-> <<head, tail>>]]
    /\ UNCHANGED <<multiset, ref, pc, base, pending, count>>

NextRans ==
    \/ \E precision \in 1..MaxPrecision : \E sl \in Slices(precision) :
          RansEncode(precision, Starts(sl, NumLanes, precision),
                     Freqs(sl, NumLanes, precision))
    \/ RansDecodeUndo
    \/ \E precision \in 1..MaxPrecision : \E sl \in Slices(precision) :
          RansDecode(precision, Freqs(sl, NumLanes, precision))
    \/ RansEncodeUndo
    \/ RansFlatten
    \/ RansUnflatten

SpecRans == InitRans /\ [][NextRans]_vars

\* ------------------------------------------------------------------------
\* codecs.py: substack, SamplingWithoutReplacement and Multiset, run as in
\* the experiments: Multiset(C).encode(state, M), then
\* Multiset(C).decode(state, |M|).
\* ------------------------------------------------------------------------

\* substack's view_fun of SamplingWithoutReplacement: head[:1]
View(hd) == SubSeq(hd, 1, 1)

\* an update that puts the lanes before the view after the subhead
Update_front(hd, subhead) == subhead \o SubSeq(hd, 1, Len(hd) - Len(subhead))

\* cs.util.view_update: the head with the viewed lanes replaced
Update(hd, subhead) == subhead \o SubSeq(hd, Len(subhead) + 1, Len(hd))

\* the symbol codec C handed to Multiset: a codec that round-trips its
\* symbols on every state; it codes a symbol as one 32-bit word on the
\* tail.  encode returns the state, decode <<state, symbol>>.
symbol_codec_encode(state, symbol) ==
    <<state[1], Append(state[2], <<0, symbol>>)>>

symbol_codec_decode(state) ==
    IF state[2] = <<>> THEN StateUnderflow
    ELSE <<(<<state[1], SubSeq(state[2], 1, Len(state[2]) - 1)>>),
           state[2][Len(state[2])][2]>>

\* SamplingWithoutReplacement.encode under substack(head[:1]):
\* returns <<state, multiset>>
swor_encode(state, symbol, ms) ==
    LET r == insert_then_forward_lookup(ms, symbol)
        multiset_size == r[1][1]
        sub == rans_encode(<<View(state[1]), state[2]>>,
                           <<r[2][1]>>, <<r[2][2]>>, multiset_size)
    IN <<(<<Update(state[1], sub[1]), sub[2]>>), r[1]>>

\* SamplingWithoutReplacement.decode that pops with the decoded cdf_value
\* in place of the start of the slice
swor_decode_popcf(state, ms) ==
    LET multiset_size == ms[1]
        cdf_value == rans_decode(<<View(state[1]), state[2]>>, multiset_size)
        r == reverse_lookup_then_remove(ms, cdf_value[1])
    IN IF IsError(r) THEN r
       ELSE LET sub == rans_pop(<<View(state[1]), state[2]>>,
                                <<cdf_value[1]>>, <<r[2][2]>>, multiset_size)
            IN IF sub = StateUnderflow THEN StateUnderflow
               ELSE <<(<<Update(state[1], sub[1]), sub[2]>>), r[3], r[1]>>

\* SamplingWithoutReplacement.decode under substack(head[:1]):
\* returns <<state, symbol, multiset>>, or the error raised
swor_decode(state, ms) ==
    LET multiset_size == ms[1]
        cdf_value == rans_decode(<<View(state[1]), state[2]>>, multiset_size)
        r == reverse_lookup_then_remove(ms, cdf_value[1])
    IN IF IsError(r) THEN r
       ELSE LET sub == rans_pop(<<View(state[1]), state[2]>>,
                                <<r[2][1]>>, <<r[2][2]>>, multiset_size)
            IN IF sub = StateUnderflow THEN StateUnderflow
               ELSE <<(<<Update(state[1], sub[1]), sub[2]>>), r[3], r[1]>>

\* the errors the engine raises
IsAnsError(r) == r = StateUnderflow \/ r = PrecisionOverflow

\* a view_fun lambda h: h[:size]
ViewFirst(hd, size) == SubSeq(hd, 1, Min(size, Len(hd)))

Ones(n) == [k \in 1..n |-> 1]

\* Uniform(prec).encode: rans.encode(ans_state, symbol, 1, prec); the
\* symbol holds one value per lane
Uniform_encode(state, symbol, prec) ==
    rans_encode(state, symbol, Ones(Len(state[1])), prec)

\* Uniform(prec).decode: returns <<state, symbol>> or the error raised
Uniform_decode(state, prec) ==
    LET symbol == rans_decode(state, prec)
        r == rans_pop(state, symbol, Ones(Len(state[1])), prec)
    IN IF IsAnsError(r) THEN r ELSE <<r, symbol>>

\* substack(Uniform(prec), lambda h: h[:size]).encode
substack_Uniform_encode(state, symbol, prec, size) ==
    LET sub == Uniform_encode(<<ViewFirst(state[1], size), state[2]>>, symbol, prec)
    IN IF IsAnsError(sub) THEN sub
       ELSE <<Update(state[1], sub[1]), sub[2]>>

\* substack(Uniform(prec), lambda h: h[:size]).decode
substack_Uniform_decode(state, prec, size) ==
    LET sub == Uniform_decode(<<ViewFirst(state[1], size), state[2]>>, prec)
    IN IF IsAnsError(sub) THEN sub
       ELSE <<(<<Update(state[1], sub[1][1]), sub[1][2]>>), sub[2]>>

\* ByteArray(max_array_size): the head has max_array_size lanes
max_array_size == NumLanes

\* the total of the bytes' uniform distribution
ByteTotal == 256

\* ByteArray.encode: the bytes in parallel on the first `size` lanes, then
\* the size on the first lane
ByteArray_encode(state, bytes_array) ==
    LET size == Len(bytes_array)
        b == substack_Uniform_encode(state, bytes_array, ByteTotal, size)
    IN IF IsAnsError(b) THEN b
       ELSE substack_Uniform_encode(b, <<size>>, max_array_size, 1)

\* ByteArray.decode: returns <<state, bytes_array>> or the error raised
ByteArray_decode(state) ==
    LET s == substack_Uniform_decode(state, max_array_size, 1)
    IN IF IsAnsError(s) THEN s
       ELSE substack_Uniform_decode(s[1], ByteTotal, s[2][1])

\* reversed(sequence)
Reversed(sequence) == [i \in 1..Len(sequence) |-> sequence[Len(sequence) + 1 - i]]

\* Sequence(C).encode: for symbol in sequence, left to right
RECURSIVE Sequence_encode(_, _)
Sequence_encode(state, sequence) ==
    IF sequence = <<>> THEN state
    ELSE Sequence_encode(symbol_codec_encode(state, Head(sequence)), Tail(sequence))

\* seq_length * [None]
None == 0

\* Sequence(C).decode, the loop `for i in reversed(range(seq_length))` from
\* index i down (positions are 1-based here): returns <<state, sequence>>
\* or the error raised
RECURSIVE SequenceDecodeLoop(_, _, _)
SequenceDecodeLoop(state, sequence, i) ==
    IF i < 1 THEN <<state, sequence>>
    ELSE LET d == symbol_codec_decode(state)
         IN IF IsAnsError(d) THEN d
            ELSE SequenceDecodeLoop(d[1], [sequence EXCEPT ![i] = d[2]], i - 1)

\* Sequence.decode that fills the positions in ascending order
RECURSIVE SequenceDecodeAscending(_, _, _)
SequenceDecodeAscending(state, sequence, i) ==
    IF i > Len(sequence) THEN <<state, sequence>>
    ELSE LET d == symbol_codec_decode(state)
         IN IF IsAnsError(d) THEN d
            ELSE SequenceDecodeAscending(d[1], [sequence EXCEPT ![i] = d[2]], i + 1)

Sequence_decode_ascending(state, seq_length) ==
    SequenceDecodeAscending(state, [i \in 1..seq_length |-> None], 1)

Sequence_decode(state, seq_length) ==
    SequenceDecodeLoop(state, [i \in 1..seq_length |-> None], seq_length)

\* VariableLengthSequence(C, max_seq_length)
max_seq_length == MaxSeqLen

\* VariableLengthSequence.encode: Sequence over reversed(sequence), then
\* the length with Uniform(max_seq_length + 1) on the first lane
VariableLengthSequence_encode(state, sequence) ==
    substack_Uniform_encode(Sequence_encode(state, Reversed(sequence)),
                            <<Len(sequence)>>, max_seq_length + 1, 1)

\* VariableLengthSequence.decode: returns <<state, sequence>> or the error
VariableLengthSequence_decode(state) ==
    LET l == substack_Uniform_decode(state, max_seq_length + 1, 1)
    IN IF IsAnsError(l) THEN l
       ELSE Sequence_decode(l[1], l[2][1])

\* the bits of one word of the flattened state
WordBits == 32

\* utils.calculate_state_bits: 8 * flatten(ans_state).nbytes
calculate_state_bits(state) == WordBits * Len(flatten(state))

RECURSIVE Factorial(_)
Factorial(n) == IF n <= 1 THEN 1 ELSE n * Factorial(n - 1)

\* the multiset just encoded holds N >= 1 copies of one symbol
AllDuplicates == \E x \in Symbols : ref[x] >= 1 /\ ref[x] = RefSize(ref)

\* Multiset.encode has returned and nothing is decoded yet
MultisetEncoded == pc = "ms_decode" /\ count = RefSize(ref)

\* compressed_length_sequence - compressed_length_multiset, the sequence
\* encoded with Sequence(C) from the same initial state
saved_bits ==
    calculate_state_bits(Sequence_encode(base, SortedRef(ref)))
        - calculate_state_bits(<<head, tail>>)

InitMultiset ==
    /\ \E sequence \in SeqsUpTo(MaxSeqLen) :
          /\ multiset = build_multiset(sequence)
          /\ ref = RefOfSeq(sequence)
    /\ \E state \in AtRestStates(NumLanes) :
          /\ head = state[1]
          /\ tail = state[2]
    /\ base = <<head, tail>>
    /\ last = NoOp
    /\ pc = "ms_encode"
    /\ pending = <<>>
    /\ count = 0

\* Multiset.encode, one iteration of `while multiset`
MultisetEncodeStep ==
    /\ pc = "ms_encode"
    /\ multiset # Empty
    /\ LET d == swor_decode(<<head, tail>>, multiset)
       IN IF d = StateUnderflow \/ IsError(d)
          THEN /\ pc' = "error"
               /\ last' = [op |-> "swor_decode", arg |-> SizeOf(multiset), res |-> d]
               /\ UNCHANGED <<multiset, head, tail, pending>>
          ELSE LET state == symbol_codec_encode(d[1], d[2])
               IN /\ head' = state[1]
                  /\ tail' = state[2]
                  /\ multiset' = d[3]
                  /\ pending' = Append(pending, [symbol |-> d[2], before |-> <<head, tail>>])
                  /\ last' = [op |-> "swor_decode", arg |-> SizeOf(multiset), res |-> d[2]]
                  /\ pc' = pc
    /\ UNCHANGED <<ref, base, count>>

\* Multiset.encode returns; the caller decodes with multiset_size = |M|
MultisetEncodeReturn ==
    /\ pc = "ms_encode"
    /\ multiset = Empty
    /\ pc' = "ms_decode"
    /\ count' = RefSize(ref)
    /\ last' = [op |-> "multiset_encode", arg |-> RefSize(ref), res |-> <<>>]
    /\ UNCHANGED <<multiset, ref, head, tail, base, pending>>

\* Multiset.decode, one iteration of `for _ in range(multiset_size)`
MultisetDecodeStep ==
    /\ pc = "ms_decode"
    /\ count > 0
    /\ LET d == symbol_codec_decode(<<head, tail>>)
       IN IF d = StateUnderflow
          THEN /\ pc' = "error"
               /\ last' = [op |-> "swor_encode", arg |-> SizeOf(multiset), res |-> d]
               /\ UNCHANGED <<multiset, head, tail, pending, count>>
          ELSE LET e == swor_encode(d[1], d[2], multiset)
               IN /\ head' = e[1][1]
                  /\ tail' = e[1][2]
                  /\ multiset' = e[2]
                  /\ pending' = SubSeq(pending, 1, Len(pending) - 1)
                  /\ last' = [op |-> "swor_encode", arg |-> SizeOf(multiset), res |-> d[2]]
                  /\ count' = count - 1
                  /\ pc' = pc
    /\ UNCHANGED <<ref, base>>

\* Multiset.decode returns (ans_state, multiset)
MultisetDecodeReturn ==
    /\ pc = "ms_decode"
    /\ count = 0
    /\ pc' = "ms_done"
    /\ last' = [op |-> "multiset_decode", arg |-> RefSize(ref), res |-> <<>>]
    /\ UNCHANGED <<multiset, ref, head, tail, base, pending, count>>

NextMultiset ==
    \/ MultisetEncodeStep
    \/ MultisetEncodeReturn
    \/ MultisetDecodeStep
    \/ MultisetDecodeReturn

SpecMultiset == InitMultiset /\ [][NextMultiset]_vars

\* ------------------------------------------------------------------------
\* codecs.py: ByteArray, Sequence and VariableLengthSequence, each run as
\* decode(encode(state, input)) from a state at rest.
\* ------------------------------------------------------------------------

\* byte values
Bytes == {0, 7, 255}

RECURSIVE ByteArraysUpTo(_)
ByteArraysUpTo(n) ==
    IF n = 0 THEN {<<>>}
    ELSE LET shorter == ByteArraysUpTo(n - 1)
         IN shorter \cup {Append(b, x) : b \in {c \in shorter : Len(c) = n - 1}, x \in Bytes}

InitCodecs ==
    /\ multiset = Empty
    /\ ref = EmptyRef
    /\ last = NoOp
    /\ pending = <<>>
    /\ count = 0
    /\ pc = "codec"
    /\ \E state \in AtRestStates(NumLanes) :
          /\ head = state[1]
          /\ tail = state[2]
    /\ base = <<head, tail>>

\* (ans_state,) = codec.encode(ans_state, input), for the encode given
CodecEncode(op, input, r) ==
    /\ pc = "codec"
    /\ pending' = <<[op |-> op, input |-> input]>>
    /\ last' = [op |-> op, arg |-> Len(input), res |-> input]
    /\ IF IsAnsError(r)
       THEN /\ pc' = "error"
            /\ UNCHANGED <<head, tail>>
       ELSE /\ pc' = "encoded"
            /\ head' = r[1]
            /\ tail' = r[2]
    /\ UNCHANGED <<multiset, ref, base, count>>

\* ans_state, output = codec.decode(ans_state), for the decode given
CodecDecode(op, r) ==
    /\ pc = "encoded"
    /\ pending[1].op = op
    /\ IF IsAnsError(r)
       THEN /\ pc' = "error"
            /\ last' = [op |-> op \o "_decode", arg |-> 0, res |-> r]
            /\ UNCHANGED <<head, tail>>
       ELSE /\ pc' = "decoded"
            /\ last' = [op |-> op \o "_decode", arg |-> Len(r[2]), res |-> r[2]]
            /\ head' = r[1][1]
            /\ tail' = r[1][2]
    /\ UNCHANGED <<multiset, ref, base, pending, count>>

ByteArrayEncode(bytes_array) ==
    CodecEncode("ByteArray", bytes_array, ByteArray_encode(<<head, tail>>, bytes_array))

ByteArrayDecode ==
    CodecDecode("ByteArray", ByteArray_decode(<<head, tail>>))

SequenceEncode(sequence) ==
    CodecEncode("Sequence", sequence, Sequence_encode(<<head, tail>>, sequence))

\* the caller passes seq_length = len(sequence)
SequenceDecode ==
    CodecDecode("Sequence", Sequence_decode(<<head, tail>>, Len(pending[1].input)))

VariableLengthSequenceEncode(sequence) ==
    CodecEncode("VariableLengthSequence", sequence,
                VariableLengthSequence_encode(<<head, tail>>, sequence))

VariableLengthSequenceDecode ==
    CodecDecode("VariableLengthSequence", VariableLengthSequence_decode(<<head, tail>>))

NextCodecs ==
    \/ \E bytes_array \in ByteArraysUpTo(max_array_size) : ByteArrayEncode(bytes_array)
    \/ ByteArrayDecode
    \/ \E sequence \in SeqsUpTo(max_seq_length) : SequenceEncode(sequence)
    \/ SequenceDecode
    \/ \E sequence \in SeqsUpTo(max_seq_length) : VariableLengthSequenceEncode(sequence)
    \/ VariableLengthSequenceDecode

SpecCodecs == InitCodecs /\ [][NextCodecs]_vars

\* ------------------------------------------------------------------------
\* Properties of the tree (checked under SpecBST)
\* ------------------------------------------------------------------------

\* C5: after any sequence of insert and reverse_lookup_then_remove steps
\* from the empty tree, to_sequence(tree) is the sorted list of the
\* reference multiset built by the same additions and removals; and
\* to_sequence(build_multiset(s)) = sorted(s).
C5_TreeRefinesReference ==
    /\ to_sequence(multiset) = SortedRef(ref)
    /\ last.op = "build_multiset" => to_sequence(multiset) = Sorted(last.res)

\* a removal by index left a node without copies of its pivot, and the
\* tree still holds two or more elements
C5_Witness ==
    /\ last.op = "reverse_lookup_then_remove"
    /\ SizeOf(multiset) >= 2
    /\ Nodes(multiset) > Cardinality({s \in Symbols : ref[s] > 0})

\* C6: for every x that is an element of m, forward_lookup(m, x) is
\* (number of elements strictly less than x, multiplicity of x).
C6_ForwardLookupCounts ==
    /\ \A x \in Symbols :
         ref[x] > 0 => forward_lookup(multiset, x) = <<CountLess(ref, x), ref[x]>>
    /\ (last.op = "forward_lookup" /\ ref[last.arg] > 0)
         => last.res = <<CountLess(ref, last.arg), ref[last.arg]>>

\* a lookup below the root returned a slice with start > 0 and freq >= 2
C6_Witness ==
    /\ last.op = "forward_lookup"
    /\ multiset # Empty
    /\ multiset[2] # last.arg
    /\ ~IsError(last.res)
    /\ last.res[1] >= 1
    /\ last.res[2] >= 2

\* C7: for every idx with 0 <= idx < size(m), reverse_lookup(m, idx)
\* returns ((start, freq), x) with freq >= 1, start <= idx < start + freq
\* and (start, freq) = forward_lookup(m, x).
C7_ReverseLookupInverse ==
    \A idx \in 0..(SizeOf(multiset) - 1) :
        LET r == reverse_lookup(multiset, idx)
        IN /\ ~IsError(r)
           /\ r[1][2] >= 1
           /\ r[1][1] <= idx
           /\ idx < r[1][1] + r[1][2]
           /\ forward_lookup(multiset, r[2]) = r[1]

\* a reverse lookup answered from the right subtree, in the middle of a
\* slice of two or more copies
C7_Witness ==
    /\ last.op = "reverse_lookup"
    /\ ~IsError(last.res)
    /\ last.res[2] > multiset[2]
    /\ last.res[1][2] >= 2
    /\ last.arg > last.res[1][1]

\* C8: insert_then_forward_lookup(m, x) returns the tree insert(m, x) and
\* the slice forward_lookup(insert(m, x), x).
C8_FusedInsertEqualsTwoStep ==
    \A x \in Symbols :
        insert_then_forward_lookup(multiset, x)
            = <<insert(multiset, x), forward_lookup(insert(multiset, x), x)>>

\* the fused insert added a further copy of a symbol found below the root
C8_Witness ==
    /\ last.op = "insert_then_forward_lookup"
    /\ multiset[2] # last.arg
    /\ last.res[1] >= 1
    /\ last.res[2] >= 2

\* C9: reverse_lookup_then_remove(m, idx) returns the tree remove(m, x) and
\* the slice and symbol ((start, freq), x) = reverse_lookup(m, idx).
C9_FusedRemoveEqualsTwoStep ==
    \A idx \in 0..(SizeOf(multiset) - 1) :
        LET r == reverse_lookup(multiset, idx)
        IN /\ ~IsError(r)
           /\ reverse_lookup_then_remove(multiset, idx)
                = <<remove(multiset, r[2]), r[1], r[2]>>

\* the fused removal took the last copy of a symbol with start > 0 and left
\* a non-empty tree
C9_Witness ==
    /\ last.op = "reverse_lookup_then_remove"
    /\ last.res[1][1] >= 1
    /\ last.res[1][2] = 1
    /\ multiset # Empty
    /\ ref[last.res[2]] = 0

\* C10: at every node all pivots on the left are strictly less and all
\* pivots on the right strictly greater than the node's pivot, so no symbol
\* is the pivot of two nodes.
C10_BSTOrder ==
    /\ BSTOrdered(multiset)
    /\ Nodes(multiset) = Cardinality(Pivots(multiset))

\* a full-depth tree (one node per symbol) just after a remove
C10_Witness ==
    /\ last.op = "remove"
    /\ Nodes(multiset) = NumSymbols
    /\ multiset[3] # Empty
    /\ multiset[4] # Empty

\* C11 as stated: in every tree reached from () by insert /
\* insert_then_forward_lookup and remove / reverse_lookup_then_remove every
\* node holds at least one copy of its pivot: multiplicity
\* = size - left.size - right.size >= 1.
C11_NoNodeWithoutCopies ==
    MinMultiplicity(multiset) >= 1

\* C11 as amended: every node has size >= 1 (a tree whose size reaches 0 is
\* the empty tuple) and multiplicity = size - left.size - right.size >= 0;
\* the root size is the number of elements held.
C11_SizeConsistency ==
    /\ MinNodeSize(multiset) >= 1
    /\ MinMultiplicity(multiset) >= 0
    /\ SizeOf(multiset) = RefSize(ref)

\* a remove took the last copy of the root's pivot and the root stays,
\* with multiplicity 0, above a non-empty child
C11_Witness ==
    /\ last.op = "remove"
    /\ multiset # Empty
    /\ last.arg = multiset[2]
    /\ Multiplicity(multiset) = 0

C24_CanonicalForm ==
    build_multiset(Sorted(to_sequence(multiset))) = build_multiset(SortedRef(ref))

\* a tree of three or more elements, two of them equal, whose shape is not
\* the canonical one
C24_Witness ==
    /\ SizeOf(multiset) >= 3
    /\ \E x \in Symbols : ref[x] >= 2
    /\ multiset # build_multiset(SortedRef(ref))
    /\ last.op \in {"remove", "reverse_lookup_then_remove"}

\* ------------------------------------------------------------------------
\* Properties of the codecs (checked under SpecCodecs)
\* ------------------------------------------------------------------------

\* C12: for every byte string b of length 0 <= n <= max_size (n = 0 and
\* n = max_size included) and every state at rest with max_size lanes,
\* ByteArray(max_size).decode(ByteArray(max_size).encode(state, b)) returns
\* the original state and exactly b.
C12_ByteArrayRoundTrip ==
    /\ (pc = "decoded" /\ pending[1].op = "ByteArray") =>
           /\ <<head, tail>> = base
           /\ last.res = pending[1].input
    /\ pending # <<>> /\ pending[1].op = "ByteArray" => pc # "error"

\* C13: for every sequence q with len(q) <= max_seq_length,
\* VariableLengthSequence(C, max_seq_length).decode(encode(state, q))
\* returns the original state and q with its elements in their original
\* order.
C13_VariableLengthSequenceRoundTrip ==
    /\ (pc = "decoded" /\ pending[1].op = "VariableLengthSequence") =>
           /\ <<head, tail>> = base
           /\ last.res = pending[1].input
    /\ pending # <<>> /\ pending[1].op = "VariableLengthSequence" => pc # "error"

\* C14: Sequence(C).encode applies C.encode left to right (the last symbol
\* ends on top of the stack) and Sequence(C).decode(state', len(q)) returns
\* the original state and q in its original order; the empty sequence
\* leaves the state unchanged.
C14_SequenceRoundTrip ==
    /\ (pc = "encoded" /\ pending[1].op = "Sequence") =>
           /\ Len(pending[1].input) = 0 => <<head, tail>> = base
           /\ Len(pending[1].input) > 0 =>
                symbol_codec_decode(<<head, tail>>)[2]
                    = pending[1].input[Len(pending[1].input)]
    /\ (pc = "decoded" /\ pending[1].op = "Sequence") =>
           /\ <<head, tail>> = base
           /\ last.res = pending[1].input
    /\ pending # <<>> /\ pending[1].op = "Sequence" => pc # "error"

\* a sequence of MaxSeqLen symbols whose first and last differ came back
\* from Sequence(C).decode onto a state with words on its tail
C14_Witness ==
    /\ pc = "decoded"
    /\ pending[1].op = "Sequence"
    /\ Len(last.res) = MaxSeqLen
    /\ last.res[1] # last.res[MaxSeqLen]
    /\ tail # <<>>

\* ------------------------------------------------------------------------
\* Properties of the rANS engine (checked under SpecRans)
\* ------------------------------------------------------------------------

\* C2: encoding a list of per-lane (start, freq) from base_message and
\* then, in reverse order, decode followed by pop(start, freq) gives at
\* every step a per-lane cf with start <= cf < start + freq and ends with
\* the head of base_message.
C2_EncodeThenDecodeIdentity ==
    last.op = "rans_decode_undo" =>
        /\ pc # "error"
        /\ \A k \in 1..NumLanes :
             /\ last.res[2][k] <= last.res[1][k]
             /\ last.res[1][k] < last.res[2][k] + last.res[3][k]
        /\ pending = <<>> => head = base_message(NumLanes)[1]

\* C3: from a state at rest, decode, pop(start, freq) for a slice that
\* contains cf, and then encode(start, freq, precision) give back the
\* state, head and tail.
C3_DecodeThenEncodeIdentity ==
    last.op = "rans_encode_undo" => <<head, tail>> = last.res

\* C4: starting from base_message, after every completed encode and every
\* completed decode/pop every lane h satisfies RANS_L <= h < RANS_H.
C4_LaneInvariant ==
    pc \in {"encoding", "unwinding"} => \A k \in 1..NumLanes : AtRest(head[k])

\* C15: for every state reached by encodes from base_message(shape),
\* flatten gives the tail words followed by two 32-bit words per lane,
\* |tail| + 2 * prod(shape) words in all; unflatten(flatten(state), shape)
\* restores the head and the tail, and flatten(unflatten(flat, shape)) = flat.
C15_FlattenUnflatten ==
    /\ last.op = "flatten" =>
           /\ Len(last.res) = Len(tail) + 2 * NumLanes
           /\ SubSeq(last.res, 1, Len(tail)) = tail
           /\ \A k \in 1..NumLanes :
                last.res[Len(tail) + 2 * k - 1] \o last.res[Len(tail) + 2 * k] = head[k]
    /\ last.op = "unflatten" =>
           /\ <<head, tail>> = last.res.state
           /\ flatten(<<head, tail>>) = last.res.flat

\* a state with words on its tail and a lane whose two words differ came
\* back from unflatten(flatten(state), shape)
C15_Witness ==
    /\ last.op = "unflatten"
    /\ tail # <<>>
    /\ \E k \in 1..NumLanes : HighWord(head[k]) # LowWord(head[k])
    /\ pending # <<>>

\* ------------------------------------------------------------------------
\* Properties of the Multiset codec (checked under SpecMultiset)
\* ------------------------------------------------------------------------

\* C1: Multiset(C).decode(Multiset(C).encode(s, M), |M|) returns (s', M')
\* with s' = s, every head lane and the whole tail, and M' holding the
\* symbols of M with their multiplicities.
C1_MultisetRoundTrip ==
    pc = "ms_done" =>
        /\ <<head, tail>> = base
        /\ to_sequence(multiset) = SortedRef(ref)

\* C16: a codec wrapped by substack(codec, view_fun) changes only the head
\* lanes view_fun selects (and the shared tail): every step of
\* SamplingWithoutReplacement encode and decode changes lane 0 only, and
\* Uniform under the view h[:size] leaves every lane from `size` on as it
\* was, on encode and on decode.
C16_SubstackFrame ==
    [][/\ Len(head') = Len(head)
       /\ \A k \in 2..NumLanes : head'[k] = head[k]
       /\ \A size \in 0..NumLanes :
            LET e == substack_Uniform_encode(<<head', tail'>>, Ones(size), ByteTotal, size)
                d == substack_Uniform_decode(<<head', tail'>>, ByteTotal, size)
            IN /\ ~IsAnsError(e)
               /\ Len(e[1]) = NumLanes
               /\ \A k \in (size + 1)..NumLanes : e[1][k] = head'[k]
               /\ ~IsAnsError(d) =>
                    /\ Len(d[1][1]) = NumLanes
                    /\ \A k \in (size + 1)..NumLanes : d[1][1][k] = head'[k]]_vars

\* SamplingWithoutReplacement.decode has changed lane 0 of a head whose
\* lanes differed, and the multiset is not yet consumed
C16_Witness ==
    /\ pc = "ms_encode"
    /\ pending # <<>>
    /\ multiset # Empty
    /\ head[1] # pending[Len(pending)].before[1][1]
    /\ base[1][1] # base[1][2]

\* C17 as stated: for a multiset of N copies of one symbol the state
\* encoded by Multiset(C) is log2(N!) bits smaller than the state encoded
\* by Sequence(C) from the same initial state (2^saved_bits = N!); for a
\* single element the saving is 0.
C17_AllDuplicateSavesLogFactorial ==
    (MultisetEncoded /\ AllDuplicates) =>
        /\ saved_bits >= 0
        /\ 2 ^ saved_bits = Factorial(RefSize(ref))

\* C17 as amended: for a multiset of N copies of one symbol Multiset(C)
\* yields the very state Sequence(C) yields for the N symbols from the same
\* initial state, so the saving is 0 bits, for N = 1 and for every larger N.
C17_AllDuplicateSavesNothing ==
    (MultisetEncoded /\ AllDuplicates) =>
        /\ <<head, tail>> = Sequence_encode(base, SortedRef(ref))
        /\ saved_bits = 0

\* Multiset(C).encode has consumed MaxSeqLen copies of one symbol
C17_Witness ==
    /\ MultisetEncoded
    /\ AllDuplicates
    /\ RefSize(ref) = MaxSeqLen
    /\ Len(pending) = MaxSeqLen

\* C19: Multiset.encode terminates.  Every SamplingWithoutReplacement.decode
\* step lowers the root size by exactly 1 (iterations done + size = |M|);
\* no non-empty tuple of size 0 is ever produced, so the tree is () exactly
\* when its size is 0; the loop `while multiset` returns after exactly |M|
\* iterations with the multiset consumed, after 0 iterations and with the
\* state unchanged for the empty multiset.
C19_EncodeTerminates ==
    [][/\ MinNodeSize(multiset') >= 1
       /\ (pc = "ms_encode" /\ pc' = "ms_encode") =>
             /\ multiset # Empty
             /\ SizeOf(multiset') = SizeOf(multiset) - 1
             /\ Len(pending') = Len(pending) + 1
             /\ Len(pending') + SizeOf(multiset') = RefSize(ref)
       /\ (pc = "ms_encode" /\ pc' = "ms_decode") =>
             /\ multiset = Empty
             /\ SizeOf(multiset) = 0
             /\ Len(pending) = RefSize(ref)
             /\ RefSize(ref) = 0 => <<head', tail'>> = base]_vars

\* Multiset.encode has returned after MaxSeqLen iterations over a multiset
\* of two or more distinct symbols
C19_Witness ==
    /\ MultisetEncoded
    /\ ~AllDuplicates
    /\ Len(pending) = MaxSeqLen
    /\ multiset = Empty

\* the symbols the encoder sampled and the decoder has not yet recovered
PendingSymbols(p) == [i \in 1..Len(p) |-> p[i].symbol]

\* the reference multiset without the symbols of a sequence
RECURSIVE RefWithout(_, _)
RefWithout(r, sequence) ==
    IF sequence = <<>> THEN r
    ELSE RefWithout(RefDel(r, Head(sequence)), Tail(sequence))

\* C20: Multiset.decode undoes the encoder's steps last-in-first-out: if
\* the encoder sampled x_1, ..., x_N passing through the states
\* s_0, ..., s_N, the k-th decode iteration recovers x_(N-k+1), and after it
\* the state is s_(N-k) and the decoder's multiset holds exactly
\* x_(N-k+1), ..., x_N.
C20_DecodeUndoesLIFO ==
    [][(pc = "ms_decode" /\ pc' = "ms_decode" /\ count' = count - 1) =>
          /\ pending # <<>>
          /\ last'.res = pending[Len(pending)].symbol
          /\ <<head', tail'>> = pending[Len(pending)].before
          /\ to_sequence(multiset')
               = SortedRef(RefWithout(ref, PendingSymbols(pending')))]_vars

\* C21: SamplingWithoutReplacement meets the preconditions of what it
\* calls.  On decode the index cf = rans.decode(state, size)[0], with size
\* the multiset total before the removal, satisfies 0 <= cf < size, and
\* reverse_lookup_then_remove returns a slice that contains cf.  On encode
\* the slice handed to rans.encode satisfies 0 <= start, freq >= 1 and
\* start + freq <= size, with size the multiset total after the insertion.
C21_SworPreconditions ==
    [][/\ (pc = "ms_encode" /\ multiset # Empty) =>
             LET size == multiset[1]
                 cf == rans_decode(<<View(head), tail>>, size)[1]
                 r == reverse_lookup_then_remove(multiset, cf)
             IN /\ size = Len(to_sequence(multiset))
                /\ 0 <= cf
                /\ cf < size
                /\ ~IsError(r)
                /\ r[2][2] >= 1
                /\ r[2][1] <= cf
                /\ cf < r[2][1] + r[2][2]
                /\ pc' = "ms_encode" => (multiset' = r[1] /\ last'.res = r[3])
       /\ (pc = "ms_decode" /\ pc' = "ms_decode" /\ count' = count - 1) =>
             LET r == insert_then_forward_lookup(multiset, last'.res)
                 size == r[1][1]
             IN /\ multiset' = r[1]
                /\ size = Len(to_sequence(multiset)) + 1
                /\ 0 <= r[2][1]
                /\ r[2][2] >= 1
                /\ r[2][1] + r[2][2] <= size
                /\ rans_encode(<<View(head), tail>>, <<r[2][1]>>, <<r[2][2]>>, size)
                     # PrecisionOverflow]_vars

\* SamplingWithoutReplacement.encode has put back a symbol beside others:
\* the decoder's multiset holds two or more elements, more are to come
C21_Witness ==
    /\ pc = "ms_decode"
    /\ last.op = "swor_encode"
    /\ SizeOf(multiset) >= 2
    /\ count >= 1

\* C22: Multiset(C).encode started on a fresh base_message (empty tail,
\* every lane RANS_L) completes for every non-empty multiset: no
\* SamplingWithoutReplacement.decode step of the loop requests a word from
\* an empty tail (StateUnderflow).
C22_NoUnderflowFromBaseMessage ==
    base = base_message(NumLanes) =>
        ~(pc = "error" /\ last.op = "swor_decode" /\ last.res = StateUnderflow)

====
